---- MODULE Spec2Model ----
(***************************************************************************)
(* BoundedBTreeMap<K, V, S> of bounded-collections: a BTreeMap<K, V> with  *)
(* an upper limit S::get() on the number of entries.                       *)
(*                                                                         *)
(* One behaviour is the life of one bounded map value: it is built by one  *)
(* of the constructors (new, try_from, try_collect, decode, deserialize),  *)
(* then the methods of the type are called on it in any order.  The        *)
(* variables op, pre, arg and ret record the last call (its name, the map  *)
(* before it, its arguments and its return value); DropResult is the       *)
(* caller dropping the returned value before the next call.                *)
(*                                                                         *)
(* A key is a record [ord, tag]: keys are ordered and compared by ord      *)
(* alone, as `Unequal(u32, bool)` of the tests; a plain integer key is a   *)
(* key with tag 0.  A BTreeMap is a function from the ords it holds to     *)
(* [tag, val]: the tag of the stored key object and the stored value.      *)
(***************************************************************************)
EXTENDS Integers, Sequences, FiniteSets

\* ------------------------------------------------------------------ bounds
MaxKey == 2
MaxVal == 1
MaxBound == 2
MaxSeqLen == 2

Ords == 0..MaxKey
Tags == {0, 1}
Vals == 0..MaxVal
Keys == [ord : Ords, tag : Tags]
PlainKey(o) == [ord |-> o, tag |-> 0]
Bounds == 0..MaxBound

\* ------------------------------------------------- alloc::collections::BTreeMap
EmptyMap == [o \in {} |-> [tag |-> 0, val |-> 0]]
AllMaps == UNION {[D -> [tag : Tags, val : Vals]] : D \in SUBSET Ords}
len(m) == Cardinality(DOMAIN m)
contains_key(m, key) == key.ord \in DOMAIN m
KeyAt(m, o) == [ord |-> o, tag |-> m[o].tag]
Entries(m) == {<<KeyAt(m, o), m[o].val>> : o \in DOMAIN m}
PlainKeys(m) == \A o \in DOMAIN m : m[o].tag = 0

\* BTreeMap::insert: an equal key keeps the stored key object and replaces the
\* value; a new key is stored as passed.
BTreeMapInsert(m, key, value) ==
    IF key.ord \in DOMAIN m
    THEN [o \in DOMAIN m |-> IF o = key.ord THEN [tag |-> m[o].tag, val |-> value] ELSE m[o]]
    ELSE [o \in DOMAIN m \cup {key.ord} |->
            IF o = key.ord THEN [tag |-> key.tag, val |-> value] ELSE m[o]]
BTreeMapInsertRet(m, key) ==
    IF key.ord \in DOMAIN m
    THEN [kind |-> "Some", val |-> m[key.ord].val]
    ELSE [kind |-> "None", val |-> 0]
\* Faulty variant of BTreeMap::remove: the entry is returned but stays.
BTreeMapRemoveKeeps(m, key) == m
\* BTreeMap::remove / remove_entry
BTreeMapRemove(m, key) == [o \in DOMAIN m \ {key.ord} |-> m[o]]
BTreeMapRemoveRet(m, key) ==
    IF key.ord \in DOMAIN m
    THEN [kind |-> "Some", val |-> m[key.ord].val]
    ELSE [kind |-> "None", val |-> 0]
BTreeMapRemoveEntryRet(m, key) ==
    IF key.ord \in DOMAIN m
    THEN [kind |-> "Some", key |-> KeyAt(m, key.ord), val |-> m[key.ord].val]
    ELSE [kind |-> "None", key |-> key, val |-> 0]

\* ------------------------------------------------------------------- state
VARIABLES
    bound,      \* S::get(), fixed for the type
    live,       \* TRUE while the caller holds a BoundedBTreeMap
    map,        \* the inner BTreeMap (self.0) of that value
    op,         \* name of the last call
    pre,        \* self.0 before the last call
    arg,        \* arguments of the last call
    ret,        \* value returned by the last call
    tracking,   \* TRUE while no try_insert has been rejected
    plainMap,   \* a plain BTreeMap taken through the same calls
    plainRet,   \* what the plain BTreeMap returned for the last call
    netInserts  \* since new(), while only try_insert / remove / remove_entry
                \* changed the map: accepted new keys minus removed entries

vars == <<bound, live, map, op, pre, arg, ret, tracking, plainMap, plainRet, netInserts>>

NotCounting == [counting |-> FALSE, n |-> 0]

NoRet == [kind |-> "NoRet", val |-> 0]
NoArg == [none |-> TRUE]

\* Self::bound()
Bound == bound

\* The caller holds a map and no call is in progress.
Idle == live /\ op = "idle"

Init ==
    /\ bound \in Bounds
    /\ live = FALSE
    /\ map = EmptyMap
    /\ op = "init"
    /\ pre = EmptyMap
    /\ arg = NoArg
    /\ ret = NoRet
    /\ tracking = TRUE
    /\ plainMap = EmptyMap
    /\ plainRet = NoRet
    /\ netInserts = NotCounting

\* The plain map follows a call that goes to the inner map unchanged.
Shadow(m) == IF tracking THEN m ELSE EmptyMap

\* ------------------------------------------------------------ constructors
\* Self::unchecked_from
UncheckedFrom(t) == t

\* The ords of a set in ascending order: the order of BTreeMap::into_iter.
RECURSIVE Ascending(_)
Ascending(S) ==
    IF S = {} THEN <<>>
    ELSE LET o == CHOOSE x \in S : \A y \in S : x <= y
         IN <<o>> \o Ascending(S \ {o})

\* BoundedBTreeMap::new
New ==
    /\ op = "init"
    /\ live' = TRUE
    /\ map' = EmptyMap
    /\ op' = "new"
    /\ pre' = EmptyMap
    /\ arg' = NoArg
    /\ ret' = [kind |-> "Self", val |-> 0]
    /\ plainMap' = EmptyMap
    /\ plainRet' = NoRet
    /\ netInserts' = [counting |-> TRUE, n |-> 0]
    /\ UNCHANGED <<bound, tracking>>

\* Faulty variant of the try_from check.
TryFromOkStrict(value, b) == len(value) < b
\* TryFrom<BTreeMap<K, V>>::try_from: value.len() <= Self::bound()
TryFromOk(value, b) == len(value) <= b
TryFrom ==
    /\ op = "init"
    /\ \E value \in AllMaps :
         /\ arg' = [value |-> value]
         /\ IF TryFromOk(value, Bound)
            THEN /\ live' = TRUE
                 /\ map' = value
                 /\ ret' = [kind |-> "Ok", val |-> 0]
            ELSE /\ live' = FALSE
                 /\ map' = EmptyMap
                 /\ ret' = [kind |-> "Err", val |-> 0]
    /\ op' = "try_from"
    /\ pre' = EmptyMap
    /\ plainMap' = map'
    /\ plainRet' = NoRet
    /\ netInserts' = NotCounting
    /\ UNCHANGED <<bound, tracking>>

\* Sequences of at most n elements of S.
SeqsUpTo(S, n) == UNION {[1..k -> S] : k \in 0..n}
\* Entries (key, value) with plain integer keys, and the entry sequences the
\* constructors are given.
PlainEntries == [ord : Ords, val : Vals]
EntrySeqs == SeqsUpTo(PlainEntries, MaxSeqLen)

\* Iterator::collect::<BTreeMap<K, V>>(): a later entry replaces the value of
\* an earlier one with an equal key.
RECURSIVE CollectFrom(_, _, _)
CollectFrom(iter, i, m) ==
    IF i > Len(iter) THEN m
    ELSE CollectFrom(iter, i + 1, BTreeMapInsert(m, PlainKey(iter[i].ord), iter[i].val))
Collect(iter) == CollectFrom(iter, 1, EmptyMap)

\* Faulty variant of the try_collect check.
TryCollectOkStrict(n, b) == n < b
\* try_collect: self.len() > Bound::get() as usize is the error case.  The
\* iterator is an ExactSizeIterator: its len() is the number of its items.
TryCollectOk(n, b) == ~(n > b)
\* Faulty variant of try_collect: the iterator is collected before its
\* length is tested.
try_collect_after_collect(iter, b) ==
    LET collected == Collect(iter)
    IN  IF TryCollectOk(Len(iter), b)
        THEN [kind |-> "Ok", msg |-> "", map |-> UncheckedFrom(collected),
              consumed |-> Len(iter), built |-> TRUE]
        ELSE [kind |-> "Err", msg |-> "iterator length too big", map |-> EmptyMap,
              consumed |-> Len(iter), built |-> TRUE]
\* try_collect: [kind, msg, map, consumed, built].  `consumed` is the number
\* of items taken from the iterator (len() takes none, collect() takes them
\* all) and `built` tells whether a BTreeMap was collected.
try_collect(iter, b) ==
    IF TryCollectOk(Len(iter), b)
    THEN [kind |-> "Ok", msg |-> "", map |-> UncheckedFrom(Collect(iter)),
          consumed |-> Len(iter), built |-> TRUE]
    ELSE [kind |-> "Err", msg |-> "iterator length too big", map |-> EmptyMap,
          consumed |-> 0, built |-> FALSE]
TryCollect ==
    /\ op = "init"
    /\ \E iter \in EntrySeqs :
         LET r == try_collect(iter, Bound) IN
         /\ arg' = [iter |-> iter, len |-> Len(iter)]
         /\ live' = (r.kind = "Ok")
         /\ map' = r.map
         /\ ret' = [kind |-> r.kind, msg |-> r.msg,
                    consumed |-> r.consumed, built |-> r.built]
    /\ op' = "try_collect"
    /\ pre' = EmptyMap
    /\ plainMap' = map'
    /\ plainRet' = NoRet
    /\ netInserts' = NotCounting
    /\ UNCHANGED <<bound, tracking>>

\* ------------------------------------------------------------------- codec
\* Bytes are 0..255; an input is a sequence of bytes read from the front.
\* The k little-endian bytes of x.
LittleEndian(x, k) == [i \in 1..k |-> (x \div (256 ^ (i - 1))) % 256]

\* Compact<u32>::encode: 1, 2, 4 or 5 bytes, the mode in the low two bits.
CompactEncode(n) ==
    IF n < 64 THEN <<n * 4>>
    ELSE IF n < 16384 THEN LittleEndian(n * 4 + 1, 2)
    ELSE IF n < 1073741824 THEN <<(n % 64) * 4 + 2>> \o LittleEndian(n \div 64, 3)
    ELSE <<3>> \o LittleEndian(n, 4)

\* Compact<u32>::decode: [ok, value, used]; a value that has a shorter
\* encoding is rejected, and a read past the end consumes nothing.
CompactDecode(input) ==
    IF Len(input) = 0 THEN [ok |-> FALSE, value |-> 0, used |-> 0]
    ELSE LET b0 == input[1]
             mode == b0 % 4
         IN  IF mode = 0 THEN [ok |-> TRUE, value |-> b0 \div 4, used |-> 1]
             ELSE IF mode = 1
             THEN IF Len(input) < 2 THEN [ok |-> FALSE, value |-> 0, used |-> 1]
                  ELSE LET x == (b0 \div 4) + 64 * input[2]
                       IN  [ok |-> x > 63, value |-> x, used |-> 2]
             ELSE IF mode = 2
             THEN IF Len(input) < 4 THEN [ok |-> FALSE, value |-> 0, used |-> 1]
                  ELSE LET x == (b0 \div 4) + 64 * input[2] + 16384 * input[3]
                                    + 4194304 * input[4]
                       IN  [ok |-> x > 16383, value |-> x, used |-> 4]
             ELSE IF b0 \div 4 # 0 \/ Len(input) < 5
                  THEN [ok |-> FALSE, value |-> 0, used |-> 1]
                  ELSE LET x == input[2] + 256 * input[3] + 65536 * input[4]
                                    + 16777216 * input[5]
                       IN  [ok |-> x > 1073741823, value |-> x, used |-> 5]

\* BTreeMap<u8, u8>::decode: the compact count, then that many (key, value)
\* pairs of one byte each, collected into a map.  [ok, map, used]
RECURSIVE DecodeEntries(_, _, _, _)
DecodeEntries(input, pos, n, m) ==
    IF n = 0 THEN [ok |-> TRUE, map |-> m, used |-> pos]
    ELSE IF Len(input) < pos + 1 THEN [ok |-> FALSE, map |-> EmptyMap, used |-> pos]
    ELSE IF Len(input) < pos + 2 THEN [ok |-> FALSE, map |-> EmptyMap, used |-> pos + 1]
    ELSE DecodeEntries(input, pos + 2, n - 1,
                       BTreeMapInsert(m, PlainKey(input[pos + 1]), input[pos + 2]))
BTreeMapDecode(input) ==
    LET c == CompactDecode(input)
    IN  IF ~c.ok THEN [ok |-> FALSE, map |-> EmptyMap, used |-> c.used]
        ELSE DecodeEntries(input, c.used, c.value, EmptyMap)

\* BTreeMap<u8, u8>::encode, which the derived Encode of BoundedBTreeMap
\* calls on field 0 (PhantomData adds no byte).
RECURSIVE EncodeEntries(_, _, _)
EncodeEntries(order, i, m) ==
    IF i > Len(order) THEN <<>>
    ELSE <<order[i], m[order[i]].val>> \o EncodeEntries(order, i + 1, m)
BTreeMapEncode(m) == CompactEncode(len(m)) \o EncodeEntries(Ascending(DOMAIN m), 1, m)
\* Faulty variant of the derived Encode: the bound is written after the map.
EncodeBoundedWithBound(m) == BTreeMapEncode(m) \o CompactEncode(Bound)
EncodeBounded(m) == BTreeMapEncode(m)

\* PrependCompactInput { encoded_len, read: 0, inner }: reads serve the bytes
\* of encoded_len first, then those of inner.
PrependCompactInput(encoded_len, inner) == encoded_len \o inner
\* The bytes taken from inner when `used` bytes were read through it.
InnerUsed(encoded_len, used) ==
    IF used > Len(encoded_len) THEN used - Len(encoded_len) ELSE 0

Remaining(input, used) == SubSeq(input, used + 1, Len(input))

\* Faulty variants of decode: the limit off by one, and the limit checked
\* only after the inner map has been decoded.
DecodeTooBigAtLimit(n, b) == n >= b
DecodeCheckedLate(input, b) ==
    LET r == BTreeMapDecode(input)
    IN  IF ~r.ok
        THEN [kind |-> "Err", msg |-> "inner", map |-> EmptyMap, used |-> r.used]
        ELSE IF CompactDecode(input).value > b
        THEN [kind |-> "Err", msg |-> "BoundedBTreeMap exceeds its limit",
              map |-> EmptyMap, used |-> r.used]
        ELSE [kind |-> "Ok", msg |-> "", map |-> r.map, used |-> r.used]
\* Faulty variant of decode: the inner decoder is handed the rest of the
\* input without the length prefix.
DecodeNoPrepend(input, b) ==
    LET l == CompactDecode(input)
    IN  IF ~l.ok
        THEN [kind |-> "Err", msg |-> "compact", map |-> EmptyMap, used |-> l.used]
        ELSE IF l.value > b
        THEN [kind |-> "Err", msg |-> "BoundedBTreeMap exceeds its limit",
              map |-> EmptyMap, used |-> l.used]
        ELSE LET r == BTreeMapDecode(Remaining(input, l.used))
             IN  IF r.ok
                 THEN [kind |-> "Ok", msg |-> "", map |-> r.map, used |-> l.used + r.used]
                 ELSE [kind |-> "Err", msg |-> "inner", map |-> EmptyMap,
                       used |-> l.used + r.used]
\* Decode::decode of BoundedBTreeMap: [kind, msg, map, used]
DecodeTooBig(n, b) == n > b
Decode(input, b) ==
    LET l == CompactDecode(input)
    IN  IF ~l.ok
        THEN [kind |-> "Err", msg |-> "compact", map |-> EmptyMap, used |-> l.used]
        ELSE IF DecodeTooBig(l.value, b)
        THEN [kind |-> "Err", msg |-> "BoundedBTreeMap exceeds its limit",
              map |-> EmptyMap, used |-> l.used]
        ELSE LET encoded_len == CompactEncode(l.value)
                 r == BTreeMapDecode(PrependCompactInput(encoded_len, Remaining(input, l.used)))
                 used == l.used + InnerUsed(encoded_len, r.used)
             IN  IF r.ok
                 THEN [kind |-> "Ok", msg |-> "", map |-> r.map, used |-> used]
                 ELSE [kind |-> "Err", msg |-> "inner", map |-> EmptyMap, used |-> used]

\* The inputs handed to decode: a compact count followed by the bytes of an
\* entry sequence (shorter, as long or longer than the count declares), and
\* short streams of bytes that are no well-formed count.
RECURSIVE Flatten(_, _)
Flatten(es, i) ==
    IF i > Len(es) THEN <<>> ELSE <<es[i].ord, es[i].val>> \o Flatten(es, i + 1)
DeclaredCounts == 0..(MaxSeqLen + 1) \cup {64, 16384, 1073741824}
PrefixBytes == {0, 1, 2, 3, 4, 7, 255}
DecodeInputs ==
    {CompactEncode(c) \o Flatten(es, 1) : c \in DeclaredCounts, es \in EntrySeqs}
        \cup SeqsUpTo(PrefixBytes, 2)

\* encode(&self) on a map with plain integer keys
Encode ==
    /\ Idle
    /\ PlainKeys(map)
    /\ op' = "encode"
    /\ pre' = map
    /\ arg' = NoArg
    /\ ret' = [kind |-> "bytes", bytes |-> EncodeBounded(map)]
    /\ plainRet' = NoRet
    /\ netInserts' = netInserts
    /\ UNCHANGED <<bound, live, map, tracking, plainMap>>

\* decode(input), of a fresh input or of the bytes encode has just returned
\* (pre is then the map that was encoded).
DecodeStep ==
    /\ \/ op = "init"
       \/ live /\ op = "encode"
    /\ \E input \in (IF op = "init" THEN DecodeInputs ELSE {ret.bytes}) :
         LET r == Decode(input, Bound) IN
         /\ arg' = [input |-> input, encoded |-> (op = "encode")]
         /\ ret' = [kind |-> r.kind, msg |-> r.msg, used |-> r.used,
                    remaining |-> Remaining(input, r.used)]
         /\ live' = (r.kind = "Ok")
         /\ map' = r.map
    /\ op' = "decode"
    /\ pre' = map
    /\ tracking' = TRUE
    /\ plainMap' = map'
    /\ plainRet' = NoRet
    /\ netInserts' = NotCounting
    /\ UNCHANGED bound

\* ------------------------------------------------------------------- serde
\* MapAccess: size_hint() is <<>> (None) or <<n>> (Some(n)) and need not be
\* the number of entries; next_key/next_value yield the entries in order.
Hints == {<<>>} \cup {<<n>> : n \in 0..(MaxSeqLen + 1)}
SizeHint(hint) == IF hint = <<>> THEN 0 ELSE hint[1]

BoundsMsg == "map exceeds the size of the bounds"
\* Faulty variant of the loop check of visit_map.
LoopFullLate(values, max) == len(values) > max
\* Faulty variant of visit_map: the loop makes no test.
LoopFullNever(values, max) == FALSE
\* visit_map: the loop from entry i on, with `values` accumulated so far.
LoopFull(values, max) == len(values) >= max
RECURSIVE VisitLoop(_, _, _, _)
VisitLoop(entries, i, values, max) ==
    IF i > Len(entries) THEN [kind |-> "Ok", msg |-> "", values |-> values, at |-> 0]
    ELSE IF LoopFull(values, max)
         THEN [kind |-> "Err", msg |-> BoundsMsg, values |-> EmptyMap, at |-> i]
         ELSE VisitLoop(entries, i + 1,
                        BTreeMapInsert(values, PlainKey(entries[i].ord), entries[i].val), max)
VisitMap(hint, entries, max) ==
    IF SizeHint(hint) > max
    THEN [kind |-> "Err", msg |-> BoundsMsg, values |-> EmptyMap, at |-> 0]
    ELSE VisitLoop(entries, 1, EmptyMap, max)

\* Deserialize::deserialize: visit_map, then try_from on its map
Deserialize ==
    /\ op = "init"
    /\ \E hint \in Hints, entries \in EntrySeqs :
         LET v == VisitMap(hint, entries, Bound) IN
         /\ arg' = [hint |-> hint, entries |-> entries]
         /\ IF v.kind = "Err"
            THEN /\ ret' = [kind |-> "Err", msg |-> v.msg, at |-> v.at]
                 /\ live' = FALSE
                 /\ map' = EmptyMap
            ELSE IF TryFromOk(v.values, Bound)
            THEN /\ ret' = [kind |-> "Ok", msg |-> "", at |-> 0]
                 /\ live' = TRUE
                 /\ map' = v.values
            ELSE /\ ret' = [kind |-> "Err", at |-> 0,
                            msg |-> "failed to create a BoundedBTreeMap from the provided map"]
                 /\ live' = FALSE
                 /\ map' = EmptyMap
    /\ op' = "deserialize"
    /\ pre' = EmptyMap
    /\ plainMap' = map'
    /\ plainRet' = NoRet
    /\ netInserts' = NotCounting
    /\ UNCHANGED <<bound, tracking>>

\* ----------------------------------------------------------------- methods
\* Faulty variants of the try_insert guard.
TryInsertOkOffByOne(m, key, b) == len(m) <= b \/ contains_key(m, key)
TryInsertOkUnchecked(m, key, b) == TRUE
TryInsertOkNoOverwrite(m, key, b) == len(m) < b
TryInsertOkEarlyFull(m, key, b) == len(m) + 1 < b \/ contains_key(m, key)
\* try_insert: self.len() < Self::bound() || self.0.contains_key(&key)
TryInsertOk(m, key, b) == len(m) < b \/ contains_key(m, key)
TryInsert ==
    /\ Idle
    /\ \E key \in Keys, value \in Vals :
         /\ arg' = [key |-> key, value |-> value]
         /\ IF TryInsertOk(map, key, Bound)
            THEN /\ map' = BTreeMapInsert(map, key, value)
                 /\ ret' = [kind |-> "Ok", opt |-> BTreeMapInsertRet(map, key)]
                 /\ tracking' = tracking
            ELSE /\ map' = map
                 /\ ret' = [kind |-> "Err", key |-> key, value |-> value]
                 /\ tracking' = FALSE
         /\ plainMap' = IF tracking' THEN BTreeMapInsert(plainMap, key, value) ELSE EmptyMap
         /\ plainRet' = IF tracking' THEN BTreeMapInsertRet(plainMap, key) ELSE NoRet
    /\ op' = "try_insert"
    /\ pre' = map
    /\ netInserts' = IF netInserts.counting /\ ret'.kind = "Ok" /\ ret'.opt.kind = "None"
                      THEN [netInserts EXCEPT !.n = @ + 1] ELSE netInserts
    /\ UNCHANGED <<bound, live>>

\* remove: self.0.remove(key)
Remove ==
    /\ Idle
    /\ \E key \in Keys :
         /\ arg' = [key |-> key]
         /\ map' = BTreeMapRemove(map, key)
         /\ ret' = BTreeMapRemoveRet(map, key)
         /\ plainMap' = IF tracking THEN BTreeMapRemove(plainMap, key) ELSE EmptyMap
         /\ plainRet' = IF tracking THEN BTreeMapRemoveRet(plainMap, key) ELSE NoRet
    /\ op' = "remove"
    /\ pre' = map
    /\ netInserts' = IF netInserts.counting /\ ret'.kind = "Some"
                      THEN [netInserts EXCEPT !.n = @ - 1] ELSE netInserts
    /\ UNCHANGED <<bound, live, tracking>>

\* remove_entry: self.0.remove_entry(key)
RemoveEntry ==
    /\ Idle
    /\ \E key \in Keys :
         /\ arg' = [key |-> key]
         /\ map' = BTreeMapRemove(map, key)
         /\ ret' = BTreeMapRemoveEntryRet(map, key)
         /\ plainMap' = IF tracking THEN BTreeMapRemove(plainMap, key) ELSE EmptyMap
         /\ plainRet' = IF tracking THEN BTreeMapRemoveEntryRet(plainMap, key) ELSE NoRet
    /\ op' = "remove_entry"
    /\ pre' = map
    /\ netInserts' = IF netInserts.counting /\ ret'.kind = "Some"
                      THEN [netInserts EXCEPT !.n = @ - 1] ELSE netInserts
    /\ UNCHANGED <<bound, live, tracking>>

\* Faulty variant of retain: the entries the predicate rejects are kept.
BTreeMapRetainInverted(m, keep, touch) ==
    [o \in DOMAIN m \ keep |-> [tag |-> m[o].tag, val |-> IF touch THEN 0 ELSE m[o].val]]
\* retain: self.0.retain(f).  The predicate keeps the keys of `keep`; with
\* `touch` it also writes 0 through its &mut V.
BTreeMapRetain(m, keep, touch) ==
    [o \in DOMAIN m \cap keep |-> [tag |-> m[o].tag, val |-> IF touch THEN 0 ELSE m[o].val]]
Retain ==
    /\ Idle
    /\ \E keep \in SUBSET Ords, touch \in BOOLEAN :
         /\ arg' = [keep |-> keep, touch |-> touch]
         /\ map' = BTreeMapRetain(map, keep, touch)
    /\ op' = "retain"
    /\ pre' = map
    /\ ret' = NoRet
    /\ plainMap' = Shadow(map')
    /\ plainRet' = NoRet
    /\ netInserts' = NotCounting
    /\ UNCHANGED <<bound, live, tracking>>

\* clear: self.0.clear()
Clear ==
    /\ Idle
    /\ map' = EmptyMap
    /\ op' = "clear"
    /\ pre' = map
    /\ arg' = NoArg
    /\ ret' = NoRet
    /\ plainMap' = Shadow(map')
    /\ plainRet' = NoRet
    /\ netInserts' = NotCounting
    /\ UNCHANGED <<bound, live, tracking>>

\* get_mut: self.0.get_mut(key); the caller writes `value` through the
\* reference when there is one.
GetMut ==
    /\ Idle
    /\ \E key \in Keys, value \in Vals :
         /\ arg' = [key |-> key, value |-> value]
         /\ IF contains_key(map, key)
            THEN /\ map' = [map EXCEPT ![key.ord] = [tag |-> map[key.ord].tag, val |-> value]]
                 /\ ret' = [kind |-> "Some", val |-> map[key.ord].val]
            ELSE /\ map' = map
                 /\ ret' = [kind |-> "None", val |-> 0]
    /\ op' = "get_mut"
    /\ pre' = map
    /\ plainMap' = Shadow(map')
    /\ plainRet' = NoRet
    /\ netInserts' = NotCounting
    /\ UNCHANGED <<bound, live, tracking>>

\* The closures handed to iter_mut, map and try_map: value transformations
\* that read the key and the value.
ValueFn(c, o, v) == (o + v + c) % (MaxVal + 1)

\* iter_mut: self.0.iter_mut(); the caller writes ValueFn(c, ..) to each value.
IterMut ==
    /\ Idle
    /\ \E c \in Vals :
         /\ arg' = [c |-> c]
         /\ map' = [o \in DOMAIN map |-> [tag |-> map[o].tag, val |-> ValueFn(c, o, map[o].val)]]
    /\ op' = "iter_mut"
    /\ pre' = map
    /\ ret' = NoRet
    /\ plainMap' = Shadow(map')
    /\ plainRet' = NoRet
    /\ netInserts' = NotCounting
    /\ UNCHANGED <<bound, live, tracking>>

\* The closures handed to try_mutate: insert `value` under every key of
\* `keys`, or remove every key of `keys`, on the raw inner map.
MutateFns ==
    [kind : {"insert"}, keys : SUBSET Ords, value : Vals]
        \cup [kind : {"remove"}, keys : SUBSET Ords, value : {0}]
ApplyMutate(f, m) ==
    IF f.kind = "insert"
    THEN [o \in DOMAIN m \cup f.keys |->
            IF o \in f.keys
            THEN [tag |-> IF o \in DOMAIN m THEN m[o].tag ELSE 0, val |-> f.value]
            ELSE m[o]]
    ELSE [o \in DOMAIN m \ f.keys |-> m[o]]

\* Faulty variant of the try_mutate check.
TryMutateKeepsOneMore(m, b) == len(m) <= b + 1
\* try_mutate: mutate(&mut self.0); (self.0.len() <= Self::bound()).then(..)
TryMutateKeeps(m, b) == len(m) <= b
TryMutate ==
    /\ Idle
    /\ \E f \in MutateFns :
         LET post == ApplyMutate(f, map) IN
         /\ arg' = [f |-> f, post |-> post]
         /\ IF TryMutateKeeps(post, Bound)
            THEN /\ live' = TRUE
                 /\ map' = post
                 /\ ret' = [kind |-> "Some", val |-> 0]
            ELSE /\ live' = FALSE
                 /\ map' = EmptyMap
                 /\ ret' = [kind |-> "None", val |-> 0]
    /\ op' = "try_mutate"
    /\ pre' = map
    /\ plainMap' = Shadow(map')
    /\ plainRet' = NoRet
    /\ netInserts' = NotCounting
    /\ UNCHANGED <<bound, tracking>>

\* Faulty variant of map: the transformation is handed the value only.
MapCollectIgnoresKey(m, c) ==
    [o \in DOMAIN m |-> [tag |-> m[o].tag, val |-> ValueFn(c, 0, m[o].val)]]
\* map: every entry (k, v) becomes (k, f((&k, v))), collected unchecked.
MapCollect(m, c) ==
    UncheckedFrom([o \in DOMAIN m |-> [tag |-> m[o].tag, val |-> ValueFn(c, o, m[o].val)]])
Map ==
    /\ Idle
    /\ \E c \in Vals :
         /\ arg' = [c |-> c]
         /\ map' = MapCollect(map, c)
    /\ op' = "map"
    /\ pre' = map
    /\ ret' = [kind |-> "Self", val |-> 0]
    /\ plainMap' = Shadow(map')
    /\ plainRet' = NoRet
    /\ netInserts' = NotCounting
    /\ UNCHANGED <<bound, live, tracking>>

\* try_map: f fails on the keys of `fail` with the key as its error; the
\* collect into Result stops at the first Err.  `calls` is the keys f was
\* called on, in order.
\* Faulty variant of try_map: every entry is transformed before the first
\* error is returned.
RECURSIVE TryMapFromEager(_, _, _, _)
TryMapFromEager(order, i, fail, calls) ==
    IF i > Len(order) THEN [kind |-> "Ok", err |-> 0, calls |-> calls]
    ELSE LET r == TryMapFromEager(order, i + 1, fail, Append(calls, order[i]))
         IN  IF order[i] \in fail
             THEN [kind |-> "Err", err |-> order[i], calls |-> r.calls]
             ELSE r
RECURSIVE TryMapFrom(_, _, _, _)
TryMapFrom(order, i, fail, calls) ==
    IF i > Len(order) THEN [kind |-> "Ok", err |-> 0, calls |-> calls]
    ELSE IF order[i] \in fail
         THEN [kind |-> "Err", err |-> order[i], calls |-> Append(calls, order[i])]
         ELSE TryMapFrom(order, i + 1, fail, Append(calls, order[i]))
TryMap ==
    /\ Idle
    /\ \E c \in Vals, fail \in SUBSET Ords :
         LET r == TryMapFrom(Ascending(DOMAIN map), 1, fail, <<>>) IN
         /\ arg' = [c |-> c, fail |-> fail]
         /\ ret' = r
         /\ IF r.kind = "Ok"
            THEN /\ live' = TRUE
                 /\ map' = MapCollect(map, c)
            ELSE /\ live' = FALSE
                 /\ map' = EmptyMap
    /\ op' = "try_map"
    /\ pre' = map
    /\ plainMap' = Shadow(map')
    /\ plainRet' = NoRet
    /\ netInserts' = NotCounting
    /\ UNCHANGED <<bound, tracking>>

\* BTreeMap::eq: equal lengths, and the entries equal pairwise in iteration
\* order; keys compare by ord, values by value.
RECURSIVE ZipAllEq(_, _, _, _, _)
ZipAllEq(oa, ob, i, a, b) ==
    IF i > Len(oa) \/ i > Len(ob) THEN TRUE
    ELSE /\ oa[i] = ob[i]
         /\ a[oa[i]].val = b[ob[i]].val
         /\ ZipAllEq(oa, ob, i + 1, a, b)
BTreeMapEq(a, b) ==
    len(a) = len(b) /\ ZipAllEq(Ascending(DOMAIN a), Ascending(DOMAIN b), 1, a, b)

\* The maps a map is compared with: itself, and the maps that differ from it
\* in one entry (one key fewer, one key more, another value, another key
\* object of the same ord).
Neighbours(m) ==
    {m}
      \cup {[o \in DOMAIN m \ {x} |-> m[o]] : x \in DOMAIN m}
      \cup {BTreeMapInsert(m, PlainKey(x), 0) : x \in Ords \ DOMAIN m}
      \cup {[m EXCEPT ![x] = [tag |-> m[x].tag, val |-> v]] : x \in DOMAIN m, v \in Vals}
      \cup {[m EXCEPT ![x] = [tag |-> 1 - m[x].tag, val |-> m[x].val]] : x \in DOMAIN m}

\* Faulty variant of eq between bounded maps: the bounds are not compared.
PartialEqBoundedContentsOnly(a, b2, other, b1) == BTreeMapEq(a, other)
\* PartialEq<BoundedBTreeMap<K, V, S1>> for BoundedBTreeMap<K, V, S2>:
\* S1::get() == S2::get() && self.0 == other.0
PartialEqBounded(a, b2, other, b1) == b1 = b2 /\ BTreeMapEq(a, other)
EqBounded ==
    /\ Idle
    /\ \E b1 \in Bounds, other \in Neighbours(map) :
         /\ len(other) <= b1
         /\ arg' = [other |-> other, otherBound |-> b1]
         /\ ret' = [kind |-> "bool", val |-> PartialEqBounded(map, Bound, other, b1)]
    /\ op' = "eq"
    /\ pre' = map
    /\ plainRet' = NoRet
    /\ netInserts' = netInserts
    /\ UNCHANGED <<bound, live, map, tracking, plainMap>>

\* Faulty variant of eq with a BTreeMap: only the lengths are compared.
PartialEqBTreeMapByLen(a, other) == len(a) = len(other)
\* PartialEq<BTreeMap<K, V>> for BoundedBTreeMap<K, V, S>: self.0 == *other
PartialEqBTreeMap(a, other) == BTreeMapEq(a, other)
EqBTreeMap ==
    /\ Idle
    /\ \E other \in Neighbours(map) :
         /\ arg' = [other |-> other]
         /\ ret' = [kind |-> "bool", val |-> PartialEqBTreeMap(map, other)]
    /\ op' = "eq_btree"
    /\ pre' = map
    /\ plainRet' = NoRet
    /\ netInserts' = netInserts
    /\ UNCHANGED <<bound, live, map, tracking, plainMap>>

\* usize::MAX, and usize::saturating_add / saturating_mul.  usize is taken 31
\* bits wide, the widest the checker's integers hold; the arithmetic below
\* never forms a value above it.
UsizeMax == 2147483647
SatAdd(a, b) == IF a > UsizeMax - b THEN UsizeMax ELSE a + b
SatMul(a, b) ==
    IF a = 0 \/ b = 0 THEN 0
    ELSE IF a > UsizeMax \div b THEN UsizeMax ELSE a * b
\* Compact(S::get()).encoded_size()
CompactEncodedSize(n) == Len(CompactEncode(n))
\* Faulty variant of max_encoded_len: the length prefix is left out.
max_encoded_len_no_prefix(b, k, v) == SatMul(b, SatAdd(k, v))
\* max_encoded_len: Self::bound().saturating_mul(K::max_encoded_len()
\*     .saturating_add(V::max_encoded_len()))
\*     .saturating_add(Compact(S::get()).encoded_size())
max_encoded_len(b, k, v) == SatAdd(SatMul(b, SatAdd(k, v)), CompactEncodedSize(b))
\* u8::max_encoded_len()
U8MaxEncodedLen == 1
\* max_encoded_len() is an associated function, evaluated without a map: for
\* the supplier S of this map and for suppliers of larger values, and for
\* key and value types of any K::max_encoded_len(), V::max_encoded_len().
LargeBounds == {63, 64, 16383, 16384, 1073741823, 1073741824}
EncodedLens == {0, 1, 2, UsizeMax \div 2, UsizeMax - 1, UsizeMax}
MaxEncodedLen ==
    /\ op = "init"
    /\ \E s \in {Bound} \cup LargeBounds, k \in EncodedLens, v \in EncodedLens :
         /\ arg' = [s |-> s, k |-> k, v |-> v]
         /\ ret' = [kind |-> "usize", val |-> max_encoded_len(s, k, v)]
    /\ op' = "max_encoded_len"
    /\ pre' = EmptyMap
    /\ netInserts' = netInserts
    /\ UNCHANGED <<bound, live, map, tracking, plainMap, plainRet>>

\* Faulty variant of is_full: full only past the bound.
is_full_past_bound(m, b) == len(m) > b
\* is_full: self.len() >= Self::bound()
is_full(m, b) == len(m) >= b
\* It is called on an idle map or right after try_insert has returned
\* (`inserted` then tells whether that call returned Ok).
IsFull ==
    /\ live
    /\ op \in {"idle", "try_insert"}
    /\ op' = "is_full"
    /\ pre' = map
    /\ arg' = NoArg
    /\ ret' = [kind |-> "bool", val |-> is_full(map, Bound),
               inserted |-> (op = "try_insert" /\ ret.kind = "Ok")]
    /\ plainRet' = NoRet
    /\ netInserts' = netInserts
    /\ UNCHANGED <<bound, live, map, tracking, plainMap>>

\* into_inner: debug_assert!(self.0.len() <= Self::bound()); self.0
\* It is called on an idle map or on the map try_from has just returned (arg
\* then stays the argument of try_from).
IntoInner ==
    /\ live
    /\ op \in {"idle", "try_from"}
    /\ live' = FALSE
    /\ map' = EmptyMap
    /\ op' = "into_inner"
    /\ pre' = map
    /\ arg' = IF op = "try_from" THEN arg ELSE NoArg
    /\ ret' = [kind |-> "BTreeMap", inner |-> map, after |-> op,
               debug_assert |-> len(map) <= Bound]
    /\ plainMap' = EmptyMap
    /\ plainRet' = NoRet
    /\ netInserts' = NotCounting
    /\ UNCHANGED <<bound, tracking>>

\* The caller drops the value returned by the last call and keeps the map.
DropResult ==
    /\ live
    /\ op # "idle"
    /\ op' = "idle"
    /\ pre' = EmptyMap
    /\ arg' = NoArg
    /\ ret' = NoRet
    /\ plainRet' = NoRet
    /\ netInserts' = netInserts
    /\ UNCHANGED <<bound, live, map, tracking, plainMap>>

Next ==
    \/ New
    \/ TryFrom
    \/ TryCollect
    \/ DecodeStep
    \/ Deserialize
    \/ TryInsert
    \/ Remove
    \/ RemoveEntry
    \/ Retain
    \/ Clear
    \/ GetMut
    \/ IterMut
    \/ TryMutate
    \/ Map
    \/ TryMap
    \/ EqBounded
    \/ EqBTreeMap
    \/ IsFull
    \/ MaxEncodedLen
    \/ IntoInner
    \/ Encode
    \/ DropResult

Spec == Init /\ [][Next]_vars

\* ------------------------------------------------------------------ claims
\* C1: whatever constructor built the map and whatever methods were called on
\* it, a bounded map the caller holds has at most bound() entries, and the
\* debug assertion of into_inner holds whenever into_inner runs.
C1_SizeWithinBound ==
    /\ live => len(map) <= Bound
    /\ op = "into_inner" => ret.debug_assert
C1_Witness ==
    /\ op = "into_inner"
    /\ ret.after = "idle"
    /\ len(ret.inner) = Bound
    /\ Bound = MaxBound

\* C2: try_insert of an absent key into a map with len() = bound() returns Err
\* with the key and the value it was given and leaves the map as it was.
C2_FullRejectsNewKey ==
    (op = "try_insert" /\ len(pre) = Bound /\ ~contains_key(pre, arg.key))
        => /\ ret.kind = "Err"
           /\ ret.key = arg.key
           /\ ret.value = arg.value
           /\ map = pre
C2_Witness ==
    /\ op = "try_insert"
    /\ Bound > 0
    /\ len(pre) = Bound
    /\ ~contains_key(pre, arg.key)
    /\ arg.key.tag = 1

\* C3: try_insert of a key equal to a stored key returns Ok(Some(previous
\* value)) also on a full map, keeps len() and the stored key object, stores
\* the new value and leaves every other entry alone.
C3_OverwriteExisting ==
    (op = "try_insert" /\ contains_key(pre, arg.key))
        => LET o == arg.key.ord IN
           /\ ret.kind = "Ok"
           /\ ret.opt.kind = "Some"
           /\ ret.opt.val = pre[o].val
           /\ len(map) = len(pre)
           /\ DOMAIN map = DOMAIN pre
           /\ map[o].val = arg.value
           /\ KeyAt(map, o) = KeyAt(pre, o)
           /\ \A x \in DOMAIN pre \ {o} : map[x] = pre[x]
C3_Witness ==
    /\ op = "try_insert"
    /\ contains_key(pre, arg.key)
    /\ len(pre) = Bound
    /\ len(pre) > 1
    /\ arg.key.tag # pre[arg.key.ord].tag
    /\ arg.value # pre[arg.key.ord].val

\* C4: try_insert fails exactly when the key is absent and len() >= bound();
\* as long as no call was rejected the bounded map and a plain BTreeMap taken
\* through the same try_insert/remove calls return the same values and hold
\* the same entries; a new key inserted below the bound returns Ok(None) and
\* makes len() one larger.
SameOption(a, b) == a.kind = b.kind /\ (a.kind = "Some" => a.val = b.val)
C4_InsertAsPlainMap ==
    /\ op = "try_insert"
          => /\ ret.kind = "Err" <=> (~contains_key(pre, arg.key) /\ len(pre) >= Bound)
             /\ (~contains_key(pre, arg.key) /\ len(pre) < Bound)
                   => /\ ret.kind = "Ok"
                      /\ ret.opt.kind = "None"
                      /\ len(map) = len(pre) + 1
    /\ (tracking /\ op \in {"try_insert", "remove", "remove_entry"})
          => /\ plainMap = map
             /\ op = "try_insert" => ret.kind = "Ok" /\ SameOption(ret.opt, plainRet)
             /\ op = "remove" => SameOption(ret, plainRet)
             /\ op = "remove_entry"
                   => SameOption(ret, plainRet) /\ (ret.kind = "Some" => ret.key = plainRet.key)
C4_Witness ==
    /\ op = "try_insert"
    /\ tracking
    /\ ret.kind = "Ok"
    /\ ret.opt.kind = "None"
    /\ len(map) = Bound
    /\ Bound = MaxBound

\* C5: decoding an input whose compact length prefix declares more elements
\* than the bound fails with "BoundedBTreeMap exceeds its limit" and takes
\* from the input the bytes of the prefix and nothing else.
C5_DecodeTooBigTakesPrefixOnly ==
    (op = "decode" /\ CompactDecode(arg.input).ok /\ CompactDecode(arg.input).value > Bound)
        => LET prefix == CompactEncode(CompactDecode(arg.input).value) IN
           /\ ret.kind = "Err"
           /\ ret.msg = "BoundedBTreeMap exceeds its limit"
           /\ ret.used = Len(prefix)
           /\ prefix \o ret.remaining = arg.input
           /\ ~live
C5_Witness ==
    /\ op = "decode"
    /\ CompactDecode(arg.input).ok
    /\ CompactDecode(arg.input).value > Bound
    /\ CompactDecode(arg.input).used = 2
    /\ Len(arg.input) = 2 + 2 * MaxSeqLen

\* C6: decoding the encoding of a bounded map succeeds and gives a map with
\* the entries of the encoded one.
C6_EncodeDecodeRoundTrip ==
    (op = "decode" /\ arg.encoded)
        => /\ ret.kind = "Ok"
           /\ live
           /\ map = pre
           /\ ret.remaining = <<>>
C6_Witness ==
    /\ op = "decode"
    /\ arg.encoded
    /\ len(pre) = Bound
    /\ Bound = MaxBound

\* C7: try_mutate returns Some, holding the mutated map, exactly when the
\* mutated inner map has at most bound() entries; otherwise it returns None
\* and the caller holds no map.
C7_TryMutateChecksAfter ==
    op = "try_mutate"
        => /\ arg.post = ApplyMutate(arg.f, pre)
           /\ ret.kind = "Some" <=> len(arg.post) <= Bound
           /\ ret.kind = "Some" => (live /\ map = arg.post)
           /\ ret.kind # "Some" => (ret.kind = "None" /\ ~live)
           /\ live => len(map) <= Bound
C7_Witness ==
    /\ op = "try_mutate"
    /\ ret.kind = "None"
    /\ len(pre) = Bound
    /\ len(arg.post) > Bound + 1

\* C8: try_from succeeds exactly when the map has at most bound() entries, a
\* map of bound() entries included; the bounded map then holds the entries of
\* the argument and into_inner gives the argument back; otherwise Err(()).
C8_TryFromIffWithinBound ==
    /\ op = "try_from"
          => /\ ret.kind = "Ok" <=> len(arg.value) <= Bound
             /\ ret.kind = "Ok" => (live /\ map = arg.value)
             /\ ret.kind # "Ok" => (ret.kind = "Err" /\ ~live)
    /\ (op = "into_inner" /\ ret.after = "try_from") => ret.inner = arg.value
C8_Witness ==
    /\ op = "into_inner"
    /\ ret.after = "try_from"
    /\ len(arg.value) = Bound
    /\ Bound = MaxBound

\* C9: try_collect fails, with "iterator length too big", exactly when the
\* length of the sequence exceeds the bound, whatever the number of distinct
\* keys; on success the map holds, for each key of the sequence, the value of
\* its last entry, and has no more entries than the sequence.
DistinctKeys(es) == {es[i].ord : i \in 1..Len(es)}
LastValue(es, o) ==
    es[CHOOSE i \in 1..Len(es) :
          es[i].ord = o /\ \A j \in (i + 1)..Len(es) : es[j].ord # o].val
C9_TryCollectByLength ==
    op = "try_collect"
        => /\ ret.kind = "Err" <=> arg.len > Bound
           /\ ret.kind = "Err" => (ret.msg = "iterator length too big" /\ ~live)
           /\ ret.kind # "Err"
                 => /\ ret.kind = "Ok"
                    /\ live
                    /\ DOMAIN map = DistinctKeys(arg.iter)
                    /\ \A o \in DOMAIN map :
                          map[o] = [tag |-> 0, val |-> LastValue(arg.iter, o)]
                    /\ len(map) <= arg.len
C9_Witness ==
    /\ op = "try_collect"
    /\ ret.kind = "Err"
    /\ Cardinality(DistinctKeys(arg.iter)) <= Bound
    /\ Bound > 0

\* C10: deserializing n entries with pairwise distinct keys, the size hint
\* absent or equal to n, succeeds exactly when n <= bound(); the map then
\* holds the n entries, and the error otherwise is "map exceeds the size of
\* the bounds".
C10_DeserializeDistinctKeys ==
    (/\ op = "deserialize"
     /\ Cardinality(DistinctKeys(arg.entries)) = Len(arg.entries)
     /\ arg.hint \in {<<>>, <<Len(arg.entries)>>})
        => LET n == Len(arg.entries) IN
           /\ ret.kind = "Ok" <=> n <= Bound
           /\ ret.kind = "Ok"
                 => /\ live
                    /\ len(map) = n
                    /\ \A i \in 1..n :
                          /\ arg.entries[i].ord \in DOMAIN map
                          /\ map[arg.entries[i].ord].val = arg.entries[i].val
           /\ ret.kind # "Ok" => (ret.kind = "Err" /\ ret.msg = BoundsMsg /\ ~live)
C10_Witness ==
    /\ op = "deserialize"
    /\ Cardinality(DistinctKeys(arg.entries)) = Len(arg.entries)
    /\ arg.hint = <<>>
    /\ Len(arg.entries) = Bound
    /\ Bound = MaxBound
    /\ ret.kind = "Ok"

\* C11: in deserialize, with the size hint absent or within the bound, the
\* bound error is raised at the first entry whose insertion would make the
\* accumulated map larger than the bound and at no earlier entry, repeated
\* keys included; a stream whose accumulated map stays within the bound is
\* accepted.
Prefix(es, i) == SubSeq(es, 1, i)
Exceeding(es, b) == {i \in 1..Len(es) : Cardinality(DistinctKeys(Prefix(es, i))) > b}
C11_ErrorAtFirstExceedingEntry ==
    (op = "deserialize" /\ SizeHint(arg.hint) <= Bound)
        => LET over == Exceeding(arg.entries, Bound) IN
           /\ ret.kind = "Err" <=> over # {}
           /\ ret.kind = "Err"
                 => /\ ret.msg = BoundsMsg
                    /\ ret.at \in over
                    /\ \A i \in over : ret.at <= i

\* C12: two bounded maps compare equal exactly when their bound values are
\* equal and they hold the same keys with the same values.
ContentsEqual(a, b) == DOMAIN a = DOMAIN b /\ \A o \in DOMAIN a : a[o].val = b[o].val
C12_EqBoundAndContents ==
    op = "eq" => (ret.val <=> (arg.otherBound = Bound /\ ContentsEqual(map, arg.other)))
C12_Witness ==
    /\ op = "eq"
    /\ ret.val
    /\ len(map) = Bound
    /\ Bound = MaxBound
    /\ \E o \in DOMAIN map : map[o].tag # arg.other[o].tag

\* C13 as stated: against a differently-bounded map, or against a BTreeMap,
\* == is true exactly when the contents are equal, whatever the bounds.
C13_ContentsOnly ==
    ((op = "eq" /\ arg.otherBound # Bound) \/ op = "eq_btree")
        => (ret.val <=> ContentsEqual(map, arg.other))
\* C13 as amended: against a BTreeMap == is true exactly when the contents
\* are equal, whatever the bound; against a bounded map of another bound
\* value it is false, equal contents or not.
C13_ContentsOnlyAgainstBTreeMap ==
    /\ op = "eq_btree" => (ret.val <=> ContentsEqual(map, arg.other))
    /\ (op = "eq" /\ arg.otherBound # Bound) => ~ret.val
C13_Witness ==
    /\ op = "eq"
    /\ arg.otherBound # Bound
    /\ ContentsEqual(map, arg.other)
    /\ len(map) > 0

\* C14: map(f) returns a bounded map with the key set and the len() of its
\* input in which every key k that held v holds f(k, v); it is produced
\* without a bound check and cannot fail, and try_map with a transformation
\* that fails on no entry returns Ok of the same map.
Transformed(before, c, after) ==
    /\ DOMAIN after = DOMAIN before
    /\ len(after) = len(before)
    /\ \A o \in DOMAIN before :
         /\ after[o].val = ValueFn(c, o, before[o].val)
         /\ KeyAt(after, o) = KeyAt(before, o)
C14_MapKeepsKeysAndLen ==
    /\ op = "map" =>
         /\ live /\ ret.kind = "Self"
         /\ Transformed(pre, arg.c, map)
         /\ len(map) <= Bound
    /\ (op = "try_map" /\ arg.fail \cap DOMAIN pre = {}) =>
         /\ live /\ ret.kind = "Ok"
         /\ Transformed(pre, arg.c, map)
         /\ len(map) <= Bound
C14_Witness ==
    /\ op = "map" /\ Bound = MaxBound /\ len(pre) = Bound
    /\ \A o \in DOMAIN pre : map[o].val # pre[o].val

\* C15: try_map calls the transformation on the entries in ascending key
\* order; when it fails for some entry the result is Err with the error of
\* the first failing entry in that order, no later entry is handed to the
\* transformation, and no map is produced.
C15_TryMapShortCircuits ==
    op = "try_map" =>
        LET failing == arg.fail \cap DOMAIN pre
            called == {ret.calls[i] : i \in 1..Len(ret.calls)}
        IN  /\ \A i, j \in 1..Len(ret.calls) : i < j => ret.calls[i] < ret.calls[j]
            /\ ret.kind = "Err" <=> failing # {}
            /\ ret.kind = "Ok" => called = DOMAIN pre
            /\ ret.kind = "Err" =>
                 /\ ret.err \in failing
                 /\ \A o \in failing : ret.err <= o
                 /\ called = {o \in DOMAIN pre : o <= ret.err}
                 /\ ~live /\ map = EmptyMap
C15_Witness ==
    /\ op = "try_map" /\ ret.kind = "Err"
    /\ Cardinality(arg.fail \cap DOMAIN pre) = 2
    /\ Len(ret.calls) < len(pre)

\* C16: is_full() is true exactly when len() >= bound(), which in every
\* state the map can be in is len() = bound(); it is false exactly when
\* try_insert succeeds for every key, and it is true when called right after
\* the try_insert that brought len() to bound().
C16_IsFullIffAtBound ==
    op = "is_full" =>
        /\ ret.val <=> len(map) >= Bound
        /\ ret.val <=> len(map) = Bound
        /\ ~ret.val <=> \A key \in Keys : TryInsertOk(map, key, Bound)
        /\ (ret.inserted /\ len(map) = Bound) => ret.val
        /\ map = pre
C16_Witness ==
    /\ op = "is_full" /\ ret.val /\ ret.inserted
    /\ Bound = MaxBound /\ len(map) = Bound

\* C17: the bytes encode() returns for a bounded map are the bytes an
\* unbounded BTreeMap with the same entries encodes to: the compact length,
\* then key and value of every entry in ascending key order, and nothing
\* else; the bound is not written.
C17_EncodesAsBTreeMap ==
    op = "encode" =>
        LET order == Ascending(DOMAIN pre) IN
        /\ ret.bytes = BTreeMapEncode(pre)
        /\ Len(ret.bytes) = 1 + 2 * len(pre)
        /\ ret.bytes[1] = 4 * len(pre)
        /\ \A i \in 1..len(pre) :
             /\ ret.bytes[2 * i] = order[i]
             /\ ret.bytes[2 * i + 1] = pre[order[i]].val
             /\ i > 1 => ret.bytes[2 * i - 2] < ret.bytes[2 * i]
        /\ map = pre
C17_Witness ==
    /\ op = "encode" /\ len(pre) > 0 /\ len(pre) < Bound
    /\ ret.bytes[1] # Bound

\* C18: max_encoded_len() is bound * (max key size + max value size) plus
\* the size of the compact encoding of the bound value, each step saturating
\* at usize::MAX instead of wrapping (the result is that sum when it is at
\* most usize::MAX, and usize::MAX otherwise), and no map with
\* len() <= bound() encodes to more bytes than that.
PrefixSize(n) ==
    IF n < 64 THEN 1 ELSE IF n < 16384 THEN 2 ELSE IF n < 1073741824 THEN 4 ELSE 5
Fits(s, k, v) ==
    \/ s = 0
    \/ /\ k <= UsizeMax - v
       /\ k + v <= (UsizeMax - PrefixSize(s)) \div s
C18_MaxEncodedLenSaturating ==
    /\ op = "max_encoded_len" =>
         IF Fits(arg.s, arg.k, arg.v)
         THEN ret.val = (IF arg.s = 0 THEN 0 ELSE arg.s * (arg.k + arg.v))
                            + PrefixSize(arg.s)
         ELSE ret.val = UsizeMax
    /\ op = "encode" =>
         Len(ret.bytes) <= max_encoded_len(Bound, U8MaxEncodedLen, U8MaxEncodedLen)
C18_Witness ==
    /\ op = "max_encoded_len" /\ ret.val = UsizeMax
    /\ arg.k <= UsizeMax \div 2 /\ arg.v <= UsizeMax \div 2
    /\ arg.s > 1 /\ arg.k + arg.v > 2

\* C19: remove, remove_entry, retain and clear go through in every state,
\* full or not, with no bound check, and never increase len().  remove and
\* remove_entry return the removed value / entry and decrease len() by one
\* when the key is present, and return None and leave the map unchanged
\* when it is absent; retain keeps exactly the entries its predicate
\* accepted; clear leaves len() = 0.
Restrict(m, S) == [o \in DOMAIN m \cap S |-> m[o]]
C19_RemovalsUnconditional ==
    /\ op \in {"remove", "remove_entry", "retain", "clear"} =>
         live /\ len(map) <= len(pre)
    /\ op \in {"remove", "remove_entry"} =>
         IF contains_key(pre, arg.key)
         THEN /\ ret.kind = "Some"
              /\ ret.val = pre[arg.key.ord].val
              /\ op = "remove_entry" => ret.key = KeyAt(pre, arg.key.ord)
              /\ map = Restrict(pre, DOMAIN pre \ {arg.key.ord})
              /\ len(map) = len(pre) - 1
         ELSE /\ ret.kind = "None"
              /\ map = pre
    /\ op = "retain" =>
         /\ DOMAIN map = DOMAIN pre \cap arg.keep
         /\ \A o \in DOMAIN map :
              /\ KeyAt(map, o) = KeyAt(pre, o)
              /\ map[o].val = IF arg.touch THEN 0 ELSE pre[o].val
    /\ op = "clear" => len(map) = 0
C19_Witness ==
    /\ op = "retain" /\ Bound = MaxBound /\ len(pre) = Bound
    /\ len(map) = 1 /\ arg.keep # DOMAIN map

\* C20: on an input whose declared element count is at most bound(),
\* decoding into the bounded map does what decoding the same input as a
\* BTreeMap does: it succeeds on the same inputs, yields the same entries,
\* and leaves the input advanced by the same number of bytes.
C20_DecodeAsBTreeMapWithinBound ==
    op = "decode" =>
        LET declared == CompactDecode(arg.input)
            plain == BTreeMapDecode(arg.input)
        IN  (declared.ok /\ declared.value <= Bound) =>
                /\ ret.kind = "Ok" <=> plain.ok
                /\ ret.kind = "Ok" => live /\ map = plain.map
                /\ ret.used = plain.used
                /\ ret.remaining = Remaining(arg.input, plain.used)
C20_Witness ==
    /\ op = "decode" /\ ~arg.encoded /\ ret.kind = "Ok"
    /\ len(map) > 0 /\ Len(ret.remaining) > 0

\* C21: when try_collect rejects a sequence because its declared length is
\* above the bound, the length alone decides: no item has been taken from
\* the sequence and no map has been built when the error is returned, and
\* every sequence of that length is rejected the same way.
C21_TryCollectRejectsUnconsumed ==
    (op = "try_collect" /\ arg.len > Bound) =>
        /\ ret.kind = "Err" /\ ret.msg = "iterator length too big"
        /\ ret.consumed = 0 /\ ~ret.built
        /\ ~live /\ map = EmptyMap
        /\ \A other \in EntrySeqs :
             Len(other) = arg.len => try_collect(other, Bound).kind = "Err"
C21_Witness ==
    /\ op = "try_collect" /\ ret.kind = "Err" /\ Bound > 0
    /\ Cardinality(DistinctKeys(arg.iter)) <= Bound

\* C22: capacity freed by a removal can be used at once.  After remove or
\* remove_entry of a present key, or a retain or clear that drops an entry,
\* from a full map, is_full() is false and try_insert of every absent key
\* succeeds; and through any sequence of try_insert, remove and remove_entry
\* calls on a map made by new(), the number of accepted new keys minus the
\* number of removed entries is len().
DroppedEntry ==
    \/ op \in {"remove", "remove_entry"} /\ contains_key(pre, arg.key)
    \/ op = "retain" /\ DOMAIN pre \ arg.keep # {}
    \/ op = "clear" /\ len(pre) > 0
C22_FreedCapacityReusable ==
    /\ (DroppedEntry /\ len(pre) = Bound) =>
         /\ live
         /\ ~is_full(map, Bound)
         /\ \A key \in Keys : ~contains_key(map, key) => TryInsertOk(map, key, Bound)
    /\ netInserts.counting => netInserts.n = len(map)
C22_Witness ==
    /\ op = "remove" /\ ret.kind = "Some"
    /\ Bound = MaxBound /\ len(pre) = Bound
    /\ netInserts.counting /\ netInserts.n = Bound - 1

\* C23: in deserialization the final try_from of the map visit_map has
\* accumulated cannot fail: every map visit_map returns has at most bound()
\* entries, so for every entry stream and every size hint the error "failed
\* to create a BoundedBTreeMap from the provided map" is never returned.
TryFromMsg == "failed to create a BoundedBTreeMap from the provided map"
C23_FinalTryFromNeverFails ==
    op = "deserialize" =>
        LET v == VisitMap(arg.hint, arg.entries, Bound) IN
        /\ ret.msg # TryFromMsg
        /\ v.kind = "Ok" =>
             /\ len(v.values) <= Bound
             /\ TryFromOk(v.values, Bound)
             /\ ret.kind = "Ok" /\ live /\ map = v.values
        /\ v.kind = "Err" => ret.kind = "Err" /\ ret.msg = BoundsMsg
C23_Witness ==
    /\ op = "deserialize" /\ ret.kind = "Ok"
    /\ arg.hint # <<>> /\ SizeHint(arg.hint) < Len(arg.entries)
    /\ Bound = MaxBound /\ len(map) = Bound

====
